---- MODULE Spec2Model ----
\* Model of generate_documents.py: row selection parsing, header matching,
\* construction grouping / filtering and the Word table row plan.
\* Python str values are modelled as sequences of one-character strings.
EXTENDS Integers, Naturals, Sequences, FiniteSets, TLC

\* ---------------------------------------------------------------------------
\* Generic string helpers (Python str methods)
\* ---------------------------------------------------------------------------

Digits == [c \in {"0","1","2","3","4","5","6","7","8","9"} |->
             CASE c = "0" -> 0 [] c = "1" -> 1 [] c = "2" -> 2 [] c = "3" -> 3
               [] c = "4" -> 4 [] c = "5" -> 5 [] c = "6" -> 6 [] c = "7" -> 7
               [] c = "8" -> 8 [] OTHER -> 9]

RECURSIVE DigitVal(_, _)
DigitVal(s, acc) == IF Len(s) = 0 THEN acc ELSE DigitVal(Tail(s), acc * 10 + Digits[Head(s)])

\* Characters: printable ASCII (except the backtick, which a TLA+ string cannot hold),
\* tab, line feed, form feed and carriage return are themselves; every other code
\* point n is the string "U" followed by the decimal digits of n
PrintableLow == " !\"#$%&'(" \o ")*+,-./0123456789:;<=>?@ABCDEFGHIJKLMNOPQRSTUVWXYZ[\\]^_"
PrintableHigh == "abcdefghijklmnopqrstuvwxyz{|}~"

Chr(n) == CASE n \in 32..95 -> SubSeq(PrintableLow, n - 31, n - 31)
            [] n \in 97..126 -> SubSeq(PrintableHigh, n - 96, n - 96)
            [] n = 9 -> "\t"
            [] n = 10 -> "\n"
            [] n = 12 -> "\f"
            [] n = 13 -> "\r"
            [] OTHER -> "U" \o ToString(n)

LiteralCodes == (32..95) \cup (97..126) \cup {9, 10, 12, 13}

\* str.isspace: the code points Python treats as whitespace (strip, split, re \s)
PyWhitespace == (9..13) \cup (28..32) \cup {133, 160, 5760} \cup (8192..8202)
                \cup {8232, 8233, 8239, 8287, 12288}

\* the code points the model's strings are made of: ASCII, Python's whitespace, the
\* Cyrillic block U+0400..U+045F and the numero sign
KnownCodes == LiteralCodes \cup PyWhitespace \cup {96} \cup (1024..1119) \cup {8470}

\* ord() as a table over the known characters
CodeOf == [c \in {Chr(n) : n \in KnownCodes} |-> CHOOSE n \in KnownCodes : Chr(n) = c]

\* ord(c)
CharCode(c) == CodeOf[c]

\* a Python str from a list of code points
SU(cps) == [i \in 1..Len(cps) |-> Chr(cps[i])]

\* the whitespace characters
SpaceChars == {Chr(n) : n \in PyWhitespace}

IsSpace(c) == c \in SpaceChars

\* str.lower on ASCII and the Cyrillic block U+0400..U+042F
LowerCode(n) == CASE n \in 65..90 -> n + 32
                  [] n \in 1040..1071 -> n + 32
                  [] n \in 1024..1039 -> n + 80
                  [] OTHER -> n

\* str.lower of one character, as a table over the known characters
LowerTable == [c \in DOMAIN CodeOf |-> Chr(LowerCode(CodeOf[c]))]

LowerChar(c) == LowerTable[c]

Lower(s) == [i \in 1..Len(s) |-> LowerChar(s[i])]

RECURSIVE LStrip(_)
LStrip(s) == IF Len(s) > 0 /\ IsSpace(s[1]) THEN LStrip(Tail(s)) ELSE s

RECURSIVE RStrip(_)
RStrip(s) == IF Len(s) > 0 /\ IsSpace(s[Len(s)]) THEN RStrip(SubSeq(s, 1, Len(s) - 1)) ELSE s

\* str.strip()
Strip(s) == RStrip(LStrip(s))

\* the position of the first occurrence of character c in s, 0 if none
FirstPos(s, c) == IF \E i \in 1..Len(s) : s[i] = c
                  THEN CHOOSE i \in 1..Len(s) : s[i] = c /\ \A j \in 1..(i - 1) : s[j] # c
                  ELSE 0

\* str.split(c) for a one-character separator
RECURSIVE Split(_, _)
Split(s, c) == LET p == FirstPos(s, c) IN
               IF p = 0 THEN << s >>
               ELSE << SubSeq(s, 1, p - 1) >> \o Split(SubSeq(s, p + 1, Len(s)), c)


\* the digits of an int() literal: ASCII digits, single underscores between digits
IntBody(s) == /\ Len(s) > 0
              /\ \A i \in 1..Len(s) : s[i] \in DOMAIN Digits \cup {"_"}
              /\ s[1] # "_" /\ s[Len(s)] # "_"
              /\ \A i \in 1..(Len(s) - 1) : ~(s[i] = "_" /\ s[i + 1] = "_")

\* Python int(str): surrounding whitespace, an optional sign, then decimal digits with
\* optional single underscores between them; anything else raises ValueError (ok = FALSE)
PyInt(s) == LET t == Strip(s)
                sg == IF Len(t) > 0 /\ t[1] \in {"+", "-"} THEN t[1] ELSE ""
                body == IF sg = "" THEN t ELSE Tail(t)
                v == DigitVal(SelectSeq(body, LAMBDA c : c # "_"), 0)
            IN IF IntBody(body)
               THEN [ok |-> TRUE, val |-> IF sg = "-" THEN 0 - v ELSE v]
               ELSE [ok |-> FALSE, val |-> 0]

Range(s) == {s[i] : i \in DOMAIN s}

\* a TLA+ string literal as a Python str (sequence of characters)
S(str) == [i \in 1..Len(str) |-> SubSeq(str, i, i)]


\* sorted(set(xs)) for a finite set of integers
RECURSIVE SortedSetSeq(_)
SortedSetSeq(X) == IF X = {} THEN << >>
                   ELSE LET m == CHOOSE x \in X : \A y \in X : x <= y
                        IN << m >> \o SortedSetSeq(X \ {m})

\* list(range(a, b))
RangeSeq(a, b) == IF b <= a THEN << >> ELSE [i \in 1..(b - a) |-> a + i - 1]

\* ---------------------------------------------------------------------------
\* parse_row_selection
\* ---------------------------------------------------------------------------

\* a ParsePart that forgets to clamp the end of a range to total_rows
ParsePartNoEndClamp(part0, total, acc) ==
  LET part == Strip(part0) IN
  IF FirstPos(part, "-") # 0
  THEN LET p == FirstPos(part, "-")
           start == PyInt(SubSeq(part, 1, p - 1))
           end == PyInt(SubSeq(part, p + 1, Len(part)))
           s0 == start.val - 1
           sIdx == IF s0 < 0 THEN 0 ELSE s0
       IN IF start.ok /\ end.ok THEN acc \o RangeSeq(sIdx, end.val) ELSE acc
  ELSE LET r == PyInt(part)
           rowIdx == r.val - 1
       IN IF r.ok /\ 0 <= rowIdx /\ rowIdx < total THEN Append(acc, rowIdx) ELSE acc

\* a ParsePart that forgets to clamp the start of a range at 0
ParsePartNoStartClamp(part0, total, acc) ==
  LET part == Strip(part0) IN
  IF FirstPos(part, "-") # 0
  THEN LET p == FirstPos(part, "-")
           start == PyInt(SubSeq(part, 1, p - 1))
           end == PyInt(SubSeq(part, p + 1, Len(part)))
           eIdx == IF end.val > total THEN total ELSE end.val
       IN IF start.ok /\ end.ok THEN acc \o RangeSeq(start.val - 1, eIdx) ELSE acc
  ELSE LET r == PyInt(part)
           rowIdx == r.val - 1
       IN IF r.ok /\ 0 <= rowIdx /\ rowIdx < total THEN Append(acc, rowIdx) ELSE acc

\* one comma-separated part of the selection, appended to acc (the loop body)
ParsePart(part0, total, acc) ==
  LET part == Strip(part0) IN
  IF FirstPos(part, "-") # 0
  THEN LET p == FirstPos(part, "-")
           start == PyInt(SubSeq(part, 1, p - 1))
           end == PyInt(SubSeq(part, p + 1, Len(part)))
           s0 == start.val - 1
           sIdx == IF s0 < 0 THEN 0 ELSE s0
           eIdx == IF end.val > total THEN total ELSE end.val
       IN IF start.ok /\ end.ok THEN acc \o RangeSeq(sIdx, eIdx) ELSE acc
  ELSE LET r == PyInt(part)
           rowIdx == r.val - 1
       IN IF r.ok /\ 0 <= rowIdx /\ rowIdx < total THEN Append(acc, rowIdx) ELSE acc

RECURSIVE ParseParts(_, _, _)
ParseParts(parts, total, acc) ==
  IF Len(parts) = 0 THEN acc
  ELSE ParseParts(Tail(parts), total, ParsePart(Head(parts), total, acc))

AllWord == << "a", "l", "l" >>

parse_row_selection(selection, total) ==
  LET sel == Lower(Strip(selection)) IN
  IF sel = AllWord THEN RangeSeq(0, total)
  ELSE SortedSetSeq(Range(ParseParts(Split(sel, ","), total, << >>)))

\* ---------------------------------------------------------------------------
\* find_column_index
\* ---------------------------------------------------------------------------

\* re.sub(r'\s+', ' ', text): every run of whitespace becomes one space
RECURSIVE CollapseWs(_)
CollapseWs(s) ==
  IF Len(s) = 0 THEN << >>
  ELSE IF IsSpace(Head(s))
       THEN << " " >> \o CollapseWs(LStrip(s))
       ELSE << Head(s) >> \o CollapseWs(Tail(s))

\* normalize(): str(text).strip(), collapse whitespace, lower()
Normalize(t) == Lower(CollapseWs(Strip(t)))

\* str.replace(' ', '')
NoSpaces(s) == SelectSeq(s, LAMBDA c : c # " ")

\* Python's `needle in hay` for str
Contains(hay, needle) ==
  \E i \in 0..(Len(hay) - Len(needle)) : SubSeq(hay, i + 1, i + Len(needle)) = needle

\* an index lookup returning the last occurrence
IndexOfLast(xs, x) == CHOOSE i \in 0..(Len(xs) - 1) : xs[i + 1] = x /\ \A j \in (i + 1)..(Len(xs) - 1) : xs[j + 1] # x

\* list.index(x) as a 0-based index (x must occur)
IndexOf(xs, x) == CHOOSE i \in 0..(Len(xs) - 1) : xs[i + 1] = x /\ \A j \in 0..(i - 1) : xs[j + 1] # x

\* a substring loop that also accepts headers sharing the first letter of the name
RECURSIVE SubstringScanLoose(_, _, _)
SubstringScanLoose(nheaders, nsearch, idx) ==
  IF idx >= Len(nheaders) THEN << >>
  ELSE LET h == NoSpaces(nheaders[idx + 1])
           n == NoSpaces(nsearch)
       IN IF Contains(h, n) \/ Contains(n, h) \/ (Len(h) > 0 /\ Len(n) > 0 /\ h[1] = n[1])
          THEN << idx >>
          ELSE SubstringScanLoose(nheaders, nsearch, idx + 1)

\* a substring loop that skips headers that are blank once spaces are removed
RECURSIVE SubstringScanSkipBlank(_, _, _)
SubstringScanSkipBlank(nheaders, nsearch, idx) ==
  IF idx >= Len(nheaders) THEN << >>
  ELSE LET h == NoSpaces(nheaders[idx + 1])
           n == NoSpaces(nsearch)
       IN IF h # << >> /\ (Contains(h, n) \/ Contains(n, h))
          THEN << idx >>
          ELSE SubstringScanSkipBlank(nheaders, nsearch, idx + 1)

\* the substring loop over headers for one search name; << >> when it finds none
RECURSIVE SubstringScan(_, _, _)
SubstringScan(nheaders, nsearch, idx) ==
  IF idx >= Len(nheaders) THEN << >>
  ELSE IF Contains(NoSpaces(nheaders[idx + 1]), NoSpaces(nsearch))
          \/ Contains(NoSpaces(nsearch), NoSpaces(nheaders[idx + 1]))
       THEN << idx >>
       ELSE SubstringScan(nheaders, nsearch, idx + 1)

\* a search-name loop that tries the substring rule before the exact rule
RECURSIVE ScanNamesSubFirst(_, _)
ScanNamesSubFirst(nheaders, names_) ==
  IF Len(names_) = 0 THEN << >>
  ELSE LET nsearch == Normalize(Head(names_)) IN
       LET sub == SubstringScan(nheaders, nsearch, 0) IN
       IF sub # << >> THEN sub
       ELSE IF nsearch \in Range(nheaders) THEN << IndexOf(nheaders, nsearch) >>
       ELSE ScanNamesSubFirst(nheaders, Tail(names_))

\* the loop over search_names; Optional[int] is << >> (None) or << i >>
RECURSIVE ScanNames(_, _)
ScanNames(nheaders, names_) ==
  IF Len(names_) = 0 THEN << >>
  ELSE LET nsearch == Normalize(Head(names_)) IN
       IF nsearch \in Range(nheaders) THEN << IndexOf(nheaders, nsearch) >>
       ELSE LET sub == SubstringScan(nheaders, nsearch, 0) IN
            IF sub # << >> THEN sub ELSE ScanNames(nheaders, Tail(names_))

find_column_index(hs, search_names) ==
  ScanNames([i \in 1..Len(hs) |-> Normalize(hs[i])], search_names)

\* ---------------------------------------------------------------------------
\* Construction helpers: Optional values are << >> (None) or << v >>
\* ---------------------------------------------------------------------------

\* Python's s < t for str
RECURSIVE StrLess(_, _)
StrLess(s, t) ==
  IF Len(t) = 0 THEN FALSE
  ELSE IF Len(s) = 0 THEN TRUE
  ELSE IF CharCode(Head(s)) # CharCode(Head(t)) THEN CharCode(Head(s)) < CharCode(Head(t))
  ELSE StrLess(Tail(s), Tail(t))

\* sorted() of a finite set of str
RECURSIVE SortedStrSeq(_)
SortedStrSeq(X) == IF X = {} THEN << >>
                   ELSE LET m == CHOOSE x \in X : \A y \in X : y = x \/ StrLess(x, y)
                        IN << m >> \o SortedStrSeq(X \ {m})

\* a loop that also collects empty construction names
RECURSIVE CollectConstructionsWithEmpty(_, _, _)
CollectConstructionsWithEmpty(rows, c, acc) ==
  IF Len(rows) = 0 THEN acc
  ELSE LET row == Head(rows)
       IN CollectConstructionsWithEmpty(Tail(rows), c,
                               IF c < Len(row) THEN acc \cup {Strip(row[c + 1])} ELSE acc)

\* get_available_constructions: the set built by the loop over data_rows
RECURSIVE CollectConstructions(_, _, _)
CollectConstructions(rows, c, acc) ==
  IF Len(rows) = 0 THEN acc
  ELSE LET row == Head(rows)
           name == IF c < Len(row) THEN Strip(row[c + 1]) ELSE << >>
       IN CollectConstructions(Tail(rows), c,
                               IF c < Len(row) /\ name # << >> THEN acc \cup {name} ELSE acc)

get_available_constructions(rows, ccol) ==
  IF ccol = << >> THEN << >>
  ELSE SortedStrSeq(CollectConstructions(rows, ccol[1], {}))

\* a filter loop comparing the untrimmed cell text
RECURSIVE FilterLoopNoStrip(_, _, _, _, _)
FilterLoopNoStrip(rows, ris, c, selected, acc) ==
  IF Len(ris) = 0 THEN acc
  ELSE LET ri == Head(ris)
           keep == /\ ri < Len(rows)
                   /\ c < Len(rows[ri + 1])
                   /\ rows[ri + 1][c + 1] \in Range(selected)
       IN FilterLoopNoStrip(rows, Tail(ris), c, selected, IF keep THEN Append(acc, ri) ELSE acc)

\* filter_rows_by_constructions: the loop over row_indices
RECURSIVE FilterLoop(_, _, _, _, _)
FilterLoop(rows, ris, c, selected, acc) ==
  IF Len(ris) = 0 THEN acc
  ELSE LET ri == Head(ris)
           keep == /\ ri < Len(rows)
                   /\ c < Len(rows[ri + 1])
                   /\ Strip(rows[ri + 1][c + 1]) \in Range(selected)
       IN FilterLoop(rows, Tail(ris), c, selected, IF keep THEN Append(acc, ri) ELSE acc)

filter_rows_by_constructions(rows, ris, ccol, selected) ==
  IF selected = << >> \/ ccol = << >> THEN ris
  ELSE FilterLoop(rows, ris, ccol[1], selected[1], << >>)

\* group_rows_by_construction: construction_name of one row index
GroupKey(rows, ri, c) ==
  IF ri < Len(rows)
  THEN IF c < Len(rows[ri + 1])
       THEN LET name == Strip(rows[ri + 1][c + 1]) IN IF name = << >> THEN << >> ELSE << name >>
       ELSE << >>
  ELSE << >>

\* a grouping step that opens a new group for every index
AddToGroupsAlwaysNew(groups, k, ri) == Append(groups, [key |-> k, idx |-> << ri >>])

\* the dict `groups` (insertion ordered): a sequence of [key, idx] records
AddToGroups(groups, k, ri) ==
  IF \E g \in 1..Len(groups) : groups[g].key = k
  THEN [g \in 1..Len(groups) |->
          IF groups[g].key = k THEN [groups[g] EXCEPT !.idx = Append(@, ri)] ELSE groups[g]]
  ELSE Append(groups, [key |-> k, idx |-> << ri >>])

RECURSIVE GroupLoop(_, _, _, _)
GroupLoop(rows, ris, c, groups) ==
  IF Len(ris) = 0 THEN groups
  ELSE GroupLoop(rows, Tail(ris), c, AddToGroups(groups, GroupKey(rows, Head(ris), c), Head(ris)))

\* a sort key putting the None group first
GroupKeyLessNoneFirst(a, b) ==
  LET na == a.key = << >>
      nb == b.key = << >>
      sa == IF na THEN << >> ELSE a.key[1]
      sb == IF nb THEN << >> ELSE b.key[1]
  IN (na /\ ~nb) \/ (na = nb /\ StrLess(sa, sb))

\* sort key (x[0] is None, x[0] or "") compared as Python tuples
GroupKeyLess(a, b) ==
  LET na == a.key = << >>
      nb == b.key = << >>
      sa == IF na THEN << >> ELSE a.key[1]
      sb == IF nb THEN << >> ELSE b.key[1]
  IN (~na /\ nb) \/ (na = nb /\ StrLess(sa, sb))

\* list.sort (stable): insertion sort
RECURSIVE InsertGroup(_, _)
InsertGroup(g, sorted) ==
  IF Len(sorted) = 0 THEN << g >>
  ELSE IF GroupKeyLess(g, Head(sorted)) THEN << g >> \o sorted
  ELSE << Head(sorted) >> \o InsertGroup(g, Tail(sorted))

\* the groups left in dict insertion order (no result.sort)
SortGroupsInsertionOrder(gs) == gs

RECURSIVE SortGroups(_)
SortGroups(gs) == IF Len(gs) = 0 THEN << >> ELSE InsertGroup(Head(gs), SortGroups(Tail(gs)))

\* sorted(indices) of a list of ints (keeps duplicates)
RECURSIVE InsertInt(_, _)
InsertInt(x, sorted) ==
  IF Len(sorted) = 0 THEN << x >>
  ELSE IF x < Head(sorted) THEN << x >> \o sorted ELSE << Head(sorted) >> \o InsertInt(x, Tail(sorted))

RECURSIVE SortInts(_)
SortInts(xs) == IF Len(xs) = 0 THEN << >> ELSE InsertInt(Head(xs), SortInts(Tail(xs)))

group_rows_by_construction(rows, ris, ccol) ==
  IF ccol = << >> THEN << [key |-> << >>, idx |-> ris] >>
  ELSE LET groups == GroupLoop(rows, ris, ccol[1], << >>)
       IN SortGroups([g \in 1..Len(groups) |-> [key |-> groups[g].key, idx |-> SortInts(groups[g].idx)]])

\* ---------------------------------------------------------------------------
\* create_word_document: the table row plan
\* ---------------------------------------------------------------------------

\* TABLE_HEADERS (the six field labels)
TABLE_HEADERS ==
  << SU(<< 8470, 32, 1087, 47, 1087 >>),
     SU(<< 1053, 1072, 1080, 1084, 1077, 1085, 1086, 1074, 1072, 1085, 1080, 1077, 32, 1076,
       1077, 1092, 1077, 1082, 1090, 1072, 47, 1087, 1086, 1074, 1088, 1077, 1078, 1076, 1077,
       1085, 1080, 1103 >>),
     SU(<< 1052, 1077, 1089, 1090, 1086, 32, 1088, 1072, 1089, 1087, 1086, 1083, 1086, 1078,
       1077, 1085, 1080, 1103 >>),
     SU(<< 1053, 1086, 1084, 1077, 1088, 32, 1092, 1086, 1090, 1086, 32, 1080, 1079, 32,
       1092, 1086, 1090, 1086, 1084, 1072, 1090, 1077, 1088, 1080, 1072, 1083, 1086, 1074 >>),
     SU(<< 1050, 1086, 1085, 1090, 1088, 1086, 1083, 1080, 1088, 1091, 1077, 1084, 1099,
       1081, 32, 1087, 1072, 1088, 1072, 1084, 1077, 1090, 1088, 32, 1076, 1077, 1092, 1077,
       1082, 1090, 1072, 32, 40, 1075, 1083, 1091, 1073, 1080, 1085, 1072, 44, 32, 1096, 1080,
       1088, 1080, 1085, 1072, 32, 1088, 1072, 1089, 1082, 1088, 1099, 1090, 1080, 1103, 44,
       32, 1090, 1074, 1077, 1088, 1076, 1086, 1089, 1090, 1100, 44, 32, 1087, 1088, 1086,
       1095, 1085, 1086, 1089, 1090, 1100, 44, 32, 1089, 1087, 1083, 1086, 1096, 1085, 1086,
       1089, 1090, 1100, 41 >>),
     SU(<< 1055, 1088, 1080, 1084, 1077, 1095, 1072, 1085, 1080, 1077 >>) >>

\* COLUMN_NUMBERS
COLUMN_NUMBERS == << S("1"), S("2"), S("3"), S("4"), S("5"), S("6") >>

NumCols == Len(TABLE_HEADERS)

DigitChar(d) == CASE d = 0 -> "0" [] d = 1 -> "1" [] d = 2 -> "2" [] d = 3 -> "3"
                  [] d = 4 -> "4" [] d = 5 -> "5" [] d = 6 -> "6" [] d = 7 -> "7"
                  [] d = 8 -> "8" [] OTHER -> "9"

\* str(n) for n >= 0
RECURSIVE IntToStr(_)
IntToStr(n) == IF n < 10 THEN << DigitChar(n) >> ELSE IntToStr(n \div 10) \o << DigitChar(n % 10) >>

\* an allocated, not yet written table row
EmptyRow == [cells |-> [c \in 1..NumCols |-> << >>], merged |-> FALSE, writes |-> 0]

\* table.rows[r] followed by writing the row: rows past the end raise IndexError,
\* which the function's `except Exception` turns into a None return
WriteRow(t, r, cells, merged) ==
  IF r < Len(t)
  THEN [t EXCEPT ![r + 1] = [cells |-> cells, merged |-> merged, writes |-> @.writes + 1]]
  ELSE t

\* a cell lookup that falls back to the first sheet column for an unmapped defect name
MappedCellFirstColumnFallback(mapping, drow, k) ==
  IF mapping[k] # << >>
  THEN IF mapping[k][1] < Len(drow) THEN drow[mapping[k][1] + 1] ELSE << >>
  ELSE IF k = 1 /\ Len(drow) > 0 THEN drow[1] ELSE << >>

\* the text of Word column k of a data row: str(data_row[excel_col]) or ""
MappedCell(mapping, drow, k) ==
  IF mapping[k] # << >> /\ mapping[k][1] < Len(drow) THEN drow[mapping[k][1] + 1] ELSE << >>

\* data cells numbered from 0 instead of 1
DataCellsZeroBased(mapping, drow, n) ==
  << IntToStr(n - 1), MappedCell(mapping, drow, 1), << >>, MappedCell(mapping, drow, 3),
     MappedCell(mapping, drow, 4), MappedCell(mapping, drow, 5) >>

DataCells(mapping, drow, n) ==
  << IntToStr(n), MappedCell(mapping, drow, 1), << >>, MappedCell(mapping, drow, 3),
     MappedCell(mapping, drow, 4), MappedCell(mapping, drow, 5) >>

\* a row count that also reserves a header row for the None group
NumRowsTableAllGroups(ris, gs) == 2 + Len(ris) + Len(gs)

\* column_widths in hundredths of an inch: [0.25, 2.5, 1.5, 1.0, 2.5, 1.5]
COLUMN_WIDTHS == << 25, 250, 150, 100, 250, 150 >>

\* the 9.27in the code distributes, in hundredths of an inch
TableWidthH == 927

\* Inches(0.25) of column 0, in hundredths of an inch
FirstColumnH == 25

RECURSIVE SumSeq(_)
SumSeq(xs) == IF Len(xs) = 0 THEN 0 ELSE Head(xs) + SumSeq(Tail(xs))

\* a width formula that divides by the whole total_width
ColumnWidthWholeTotal(cw, i) ==
  IF i = 0 THEN [num |-> FirstColumnH, den |-> 1]
  ELSE [num |-> cw[i + 1] * (TableWidthH - FirstColumnH), den |-> SumSeq(cw)]

\* col.width of column i: column_widths[i] / (total_width - column_widths[0]) * (9.27 - 0.25)
ColumnWidth(cw, i) ==
  IF i = 0 THEN [num |-> FirstColumnH, den |-> 1]
  ELSE [num |-> cw[i + 1] * (TableWidthH - FirstColumnH), den |-> SumSeq(cw) - cw[1]]

\* Inches(x) stores int(x * 914400) EMU: 9144 EMU per hundredth of an inch
EmuPerHundredth == 9144

\* the EMU the double arithmetic of line 768 loses against the exact quotient, per
\* column: int() truncates 1.5033333333333332 * 914400 and 1.0022222222222221 * 914400
\* to 1374647 and 916431 (exact 1374648, 916432); the other columns come out exact
DoubleRoundingLoss == << 0, 0, 1, 1, 0, 1 >>

\* col.width of column i in EMU: Inches(w) = int(w * 914400)
ColumnWidthEMU(cw, i) ==
  LET w == ColumnWidth(cw, i) IN (w.num * EmuPerHundredth) \div w.den - DoubleRoundingLoss[i + 1]

\* EMU per twip: the gridCol w attribute col.width writes is in twips
EmuPerTwip == 635

\* Length.twips: int(round(emu / 635.0)); 635 is odd, so no EMU value lies halfway
ToTwips(emu) == LET q == emu \div EmuPerTwip
                    r == emu % EmuPerTwip
                IN IF 2 * r > EmuPerTwip THEN q + 1 ELSE q

\* col.width as the column keeps it: the EMU rounded to twips, read back as Twips(w)
StoredWidth(emu) == ToTwips(emu) * EmuPerTwip

\* num_rows_table = 2 + num_data_rows + num_construction_headers
NumRowsTable(ris, gs) == 2 + Len(ris) + Cardinality({g \in 1..Len(gs) : gs[g].key # << >>})

\* ---------------------------------------------------------------------------
\* create_word_document: saving under output/
\* ---------------------------------------------------------------------------

\* zero-padded two-digit field
Pad2(n) == IF n < 10 THEN << "0" >> \o IntToStr(n) ELSE IntToStr(n)

\* datetime.now().strftime("%Y%m%d_%H%M%S")
Strftime(dt) == IntToStr(dt.year) \o Pad2(dt.month) \o Pad2(dt.day) \o << "_" >>
                \o Pad2(dt.hour) \o Pad2(dt.minute) \o Pad2(dt.second)

\* position of the last occurrence of c in s, 0 if none
LastPos(s, c) == IF \E i \in 1..Len(s) : s[i] = c
                 THEN CHOOSE i \in 1..Len(s) : s[i] = c /\ \A j \in (i + 1)..Len(s) : s[j] # c
                 ELSE 0

\* an alternate name that appends the timestamp after the extension
StampedNameAfterExt(name, ts) == name \o << "_" >> \o ts

\* output_filename.rsplit('.', 1) and the f-strings building new_filename
StampedName(name, ts) ==
  LET d == LastPos(name, ".") IN
  IF d # 0
  THEN SubSeq(name, 1, d - 1) \o << "_" >> \o ts \o << "." >> \o SubSeq(name, d + 1, Len(name))
  ELSE name \o << "_" >> \o ts

\* ---------------------------------------------------------------------------
\* read_excel_file and main
\* ---------------------------------------------------------------------------

\* the candidate lists read_excel_file passes to find_column_index, as code points

\* lines 253-259: "Наименование дефекта / повреждения", "Наименование дефекта/повреждения", "Наименование дефекта", "Дефект", "Повреждение"
DefectCandidates ==
  << SU(<< 1053, 1072, 1080, 1084, 1077, 1085, 1086, 1074, 1072, 1085, 1080, 1077, 32, 1076, 1077, 1092, 1077, 1082, 1090, 1072, 32, 47, 32, 1087, 1086, 1074, 1088, 1077, 1078, 1076, 1077, 1085, 1080, 1103 >>)
   , SU(<< 1053, 1072, 1080, 1084, 1077, 1085, 1086, 1074, 1072, 1085, 1080, 1077, 32, 1076, 1077, 1092, 1077, 1082, 1090, 1072, 47, 1087, 1086, 1074, 1088, 1077, 1078, 1076, 1077, 1085, 1080, 1103 >>)
   , SU(<< 1053, 1072, 1080, 1084, 1077, 1085, 1086, 1074, 1072, 1085, 1080, 1077, 32, 1076, 1077, 1092, 1077, 1082, 1090, 1072 >>)
   , SU(<< 1044, 1077, 1092, 1077, 1082, 1090 >>)
   , SU(<< 1055, 1086, 1074, 1088, 1077, 1078, 1076, 1077, 1085, 1080, 1077 >>)
  >>

\* lines 270-276: "Наименование конструкций", "Конструкции", "Конструкция", "Тип конструкции", "Элемент конструкции"
GroupCandidates ==
  << SU(<< 1053, 1072, 1080, 1084, 1077, 1085, 1086, 1074, 1072, 1085, 1080, 1077, 32, 1082, 1086, 1085, 1089, 1090, 1088, 1091, 1082, 1094, 1080, 1081 >>)
   , SU(<< 1050, 1086, 1085, 1089, 1090, 1088, 1091, 1082, 1094, 1080, 1080 >>)
   , SU(<< 1050, 1086, 1085, 1089, 1090, 1088, 1091, 1082, 1094, 1080, 1103 >>)
   , SU(<< 1058, 1080, 1087, 32, 1082, 1086, 1085, 1089, 1090, 1088, 1091, 1082, 1094, 1080, 1080 >>)
   , SU(<< 1069, 1083, 1077, 1084, 1077, 1085, 1090, 32, 1082, 1086, 1085, 1089, 1090, 1088, 1091, 1082, 1094, 1080, 1080 >>)
  >>

\* lines 281-287: "Номер фото из фотоматериалов", "Номер фото", "Фото", "Фотоматериалы", "Номер фото из фото"
PhotoCandidates ==
  << SU(<< 1053, 1086, 1084, 1077, 1088, 32, 1092, 1086, 1090, 1086, 32, 1080, 1079, 32, 1092, 1086, 1090, 1086, 1084, 1072, 1090, 1077, 1088, 1080, 1072, 1083, 1086, 1074 >>)
   , SU(<< 1053, 1086, 1084, 1077, 1088, 32, 1092, 1086, 1090, 1086 >>)
   , SU(<< 1060, 1086, 1090, 1086 >>)
   , SU(<< 1060, 1086, 1090, 1086, 1084, 1072, 1090, 1077, 1088, 1080, 1072, 1083, 1099 >>)
   , SU(<< 1053, 1086, 1084, 1077, 1088, 32, 1092, 1086, 1090, 1086, 32, 1080, 1079, 32, 1092, 1086, 1090, 1086 >>)
  >>

\* lines 291-297: "Контролируемый параметр дефекта", "Параметр дефекта", "Контролируемый параметр", "Параметр", "Параметры"
ParamCandidates ==
  << SU(<< 1050, 1086, 1085, 1090, 1088, 1086, 1083, 1080, 1088, 1091, 1077, 1084, 1099, 1081, 32, 1087, 1072, 1088, 1072, 1084, 1077, 1090, 1088, 32, 1076, 1077, 1092, 1077, 1082, 1090, 1072 >>)
   , SU(<< 1055, 1072, 1088, 1072, 1084, 1077, 1090, 1088, 32, 1076, 1077, 1092, 1077, 1082, 1090, 1072 >>)
   , SU(<< 1050, 1086, 1085, 1090, 1088, 1086, 1083, 1080, 1088, 1091, 1077, 1084, 1099, 1081, 32, 1087, 1072, 1088, 1072, 1084, 1077, 1090, 1088 >>)
   , SU(<< 1055, 1072, 1088, 1072, 1084, 1077, 1090, 1088 >>)
   , SU(<< 1055, 1072, 1088, 1072, 1084, 1077, 1090, 1088, 1099 >>)
  >>

\* lines 301-306: "Примечание", "Примечания", "Комментарий", "Замечания"
NoteCandidates ==
  << SU(<< 1055, 1088, 1080, 1084, 1077, 1095, 1072, 1085, 1080, 1077 >>)
   , SU(<< 1055, 1088, 1080, 1084, 1077, 1095, 1072, 1085, 1080, 1103 >>)
   , SU(<< 1050, 1086, 1084, 1084, 1077, 1085, 1090, 1072, 1088, 1080, 1081 >>)
   , SU(<< 1047, 1072, 1084, 1077, 1095, 1072, 1085, 1080, 1103 >>)
  >>

\* column_mapping: Word column 1..5 -> Optional Excel column (2 is always None)
ColumnMapping(hdrs) ==
  [k \in 1..5 |-> CASE k = 1 -> find_column_index(hdrs, DefectCandidates)
                    [] k = 2 -> << >>
                    [] k = 3 -> find_column_index(hdrs, PhotoCandidates)
                    [] k = 4 -> find_column_index(hdrs, ParamCandidates)
                    [] OTHER -> find_column_index(hdrs, NoteCandidates)]

\* the return value of read_excel_file for a sheet (header row + data rows)
ReadSheet(sheet, k) ==
  LET hdrs == [i \in 1..Len(sheet.header) |-> Strip(sheet.header[i])] IN
  [data |-> sheet.rows, sheet |-> << k >>, mapping |-> ColumnMapping(hdrs),
   ccol |-> find_column_index(hdrs, GroupCandidates)]

\* an error return that keeps a placeholder row
ReadFailureWithRow == [data |-> << << S("?") >> >>, sheet |-> << >>, mapping |-> << >>, ccol |-> << >>]

\* the `except Exception` return of read_excel_file: [], None, {}, None
ReadFailure == [data |-> << >>, sheet |-> << >>, mapping |-> << >>, ccol |-> << >>]

\* select_constructions: the indices picked by one non-"all" answer (the parts loop)
ConstructionPick(selection, cons) ==
  LET ids == SortedSetSeq(Range(ParseParts(Split(selection, ","), Len(cons), << >>))) IN
  [i \in 1..Len(ids) |-> cons[ids[i] + 1]]

\* main's inline pre-filter of data by the selected constructions
InlineFilter(rows, c, selected) ==
  SelectSeq(rows, LAMBDA row : c < Len(row) /\ Strip(row[c + 1]) \in Range(selected))

\* a remapping loop that advances filtered_idx before testing it
RECURSIVE RemapLoopEarly(_, _, _, _, _, _)
RemapLoopEarly(rows, c, selected, chosen, origIdx, filteredIdx) ==
  IF origIdx >= Len(rows) THEN << >>
  ELSE LET row == rows[origIdx + 1]
           hit == c < Len(row) /\ Strip(row[c + 1]) \in Range(selected)
       IN IF hit
          THEN (IF filteredIdx + 1 \in Range(chosen) THEN << origIdx >> ELSE << >>)
               \o RemapLoopEarly(rows, c, selected, chosen, origIdx + 1, filteredIdx + 1)
          ELSE RemapLoopEarly(rows, c, selected, chosen, origIdx + 1, filteredIdx)

\* main's remapping of row positions in the filtered view to original indices
RECURSIVE RemapLoop(_, _, _, _, _, _)
RemapLoop(rows, c, selected, chosen, origIdx, filteredIdx) ==
  IF origIdx >= Len(rows) THEN << >>
  ELSE LET row == rows[origIdx + 1]
           hit == c < Len(row) /\ Strip(row[c + 1]) \in Range(selected)
       IN IF hit
          THEN (IF filteredIdx \in Range(chosen) THEN << origIdx >> ELSE << >>)
               \o RemapLoop(rows, c, selected, chosen, origIdx + 1, filteredIdx + 1)
          ELSE RemapLoop(rows, c, selected, chosen, origIdx + 1, filteredIdx)

\* a label that prints 0-based row numbers
RowLabelZeroBased(ris) ==
  IF Len(ris) = 1 THEN IntToStr(ris[1])
  ELSE IntToStr(ris[1]) \o << "-" >> \o IntToStr(ris[Len(ris)])

\* row_label of the output filename
RowLabel(ris) ==
  IF Len(ris) = 1 THEN IntToStr(ris[1] + 1)
  ELSE IntToStr(ris[1] + 1) \o << "-" >> \o IntToStr(ris[Len(ris)] + 1)

\* ---------------------------------------------------------------------------
\* Bounded inputs of parse_row_selection
\* ---------------------------------------------------------------------------

MaxExprLen == 3
MaxTotal == 3

ParseAlpha == {"0", "1", "2", "-", ",", " ", "x"}

StrsUpTo(A, n) == UNION {[1..k -> A] : k \in 0..n}

\* selections of interest: the spec's examples and "all" spellings
ExampleExprs == {S("all"), S(" ALL "), S("aLl"), S("al l"), S("all,1"), S("1,3,7"),
                 S("2-5"), S("0-2"), S("x,2"), S("1--2"), S("3-1"), S("12"),
                 S("1-12"), S("2,2-3,1"), S(" 4 - 9 "), S("1_0"), S("1__0"), S("2_"),
                 S("1\n"), S("\f2"), S("\r1-2\n")}



Exprs == StrsUpTo(ParseAlpha, MaxExprLen) \cup ExampleExprs

Totals == (0..MaxTotal) \cup {10}

\* ---------------------------------------------------------------------------
\* State: the arguments and result of the call under study
\* ---------------------------------------------------------------------------

VARIABLES
  pexpr,    \* selection argument of parse_row_selection
  ptotal,   \* total_rows argument of parse_row_selection
  presult,  \* returned list, << >> before the call
  headers,  \* headers argument of find_column_index
  names,    \* search_names argument of find_column_index
  fresult,  \* Optional[int] result: << >> is None
  data,     \* data_rows: list of rows, each a list of cell texts
  idx,      \* row_indices argument
  col,      \* construction_col: << >> is None, << c >> is column c
  selcons,  \* selected_constructions: << >> is None, << list >> otherwise
  res,      \* result of the grouping / filtering / enumeration call
  cmap,     \* column_mapping: Word column 1..5 -> Optional Excel column
  groups,   \* construction_groups of create_word_document
  tbl,      \* the Word table: one record per allocated row
  cur,      \* current_table_row
  counter,  \* row_counter
  gi,       \* position in construction_groups (1-based)
  mi,       \* position in the group's indices; 0 before its header row
  widths,   \* table column widths in EMU, as col.width reads them back
  out,      \* the save step: output file system and the returned path
  env,      \* what the user and the file system supply to main
  wiz,      \* main's locals
  pc        \* "init" before the call, "done" after it

vars == << pexpr, ptotal, presult, headers, names, fresult, data, idx, col, selcons, res,
          cmap, groups, tbl, cur, counter, gi, mi, widths,
          out, env, wiz, pc >>

extvars == << out, env, wiz >>

ExtIdle == out = << >> /\ env = << >> /\ wiz = << >>

docvars == << cmap, groups, tbl, cur, counter, gi, mi, widths >>

NoMapping == [k \in 1..5 |-> << >>]

DocIdle == cmap = NoMapping /\ groups = << >> /\ tbl = << >> /\ cur = 0 /\ counter = 0 /\ gi = 0 /\ mi = 0
           /\ widths = << >>

rowvars == << data, idx, col, selcons, res >>

RowsIdle == data = << >> /\ idx = << >> /\ col = << >> /\ selcons = << >> /\ res = << >>

ParseIdle == pexpr = << >> /\ ptotal = 0 /\ presult = << >>

FindIdle == headers = << >> /\ names = << >> /\ fresult = << >>

parsevars == << pexpr, ptotal, presult >>

findvars == << headers, names, fresult >>

InitParse ==
  /\ pexpr \in Exprs
  /\ ptotal \in Totals
  /\ presult = << >>
  /\ FindIdle
  /\ RowsIdle
  /\ DocIdle
  /\ ExtIdle
  /\ pc = "init"

\* select_rows: parse the user's selection against the row count
ParseSelection ==
  /\ pc = "init"
  /\ presult' = parse_row_selection(pexpr, ptotal)
  /\ pc' = "done"
  /\ UNCHANGED << pexpr, ptotal, findvars, rowvars, docvars, extvars >>

NextParse == ParseSelection

SpecParse == InitParse /\ [][NextParse]_vars

\* ---------------------------------------------------------------------------
\* Bounded inputs of find_column_index
\* ---------------------------------------------------------------------------

MaxHeaders == 2
MaxNames == 2

\* header / search-name texts exercising case, whitespace runs, tabs and substrings
ColumnTexts == {S(""), S("a"), S(" A "), S("ab"), S("a  b"), << "a", "\t", "B" >>, S("b"), S("ac")}

ListsUpTo(A, n) == UNION {[1..k -> A] : k \in 0..n}

\* header cells with line breaks inside
LineBreakHeaders == {<< S("Photo\nnumber"), S("Photo number") >>, << S("Defect\r\nname") >>}
LineBreakNames == {<< S("photo number") >>, << S("defect name") >>}

InitFind ==
  /\ ParseIdle
  /\ RowsIdle
  /\ DocIdle
  /\ ExtIdle
  /\ \/ /\ headers \in ListsUpTo(ColumnTexts, MaxHeaders)
        /\ names \in ListsUpTo(ColumnTexts, MaxNames)
     \/ /\ headers \in LineBreakHeaders
        /\ names \in LineBreakNames
  /\ fresult = << >>
  /\ pc = "init"

\* read_excel_file: look a column up by its candidate names
FindColumn ==
  /\ pc = "init"
  /\ fresult' = find_column_index(headers, names)
  /\ pc' = "done"
  /\ UNCHANGED << parsevars, headers, names, rowvars, docvars, extvars >>

NextFind == FindColumn

SpecFind == InitFind /\ [][NextFind]_vars

\* ---------------------------------------------------------------------------
\* Bounded inputs of the construction helpers
\* ---------------------------------------------------------------------------

MaxRows == 2
MaxRowLen == 1

\* cell texts: empty, padded, and keys ordered "A" < "AB" < "B"
CellTexts == {S(""), S("A"), S(" B"), S("AB")}

\* the spec's grouping example: values ["B","A","B",""]
ExampleData == << << S("B") >>, << S("A") >>, << S("B") >>, << S("") >> >>

\* sheet.iter_rows yields every row with the sheet's width
SheetsOf(texts) == UNION {[1..n -> [1..w -> texts]] : n \in 0..MaxRows, w \in 0..MaxRowLen}

\* cells with line breaks, and names ordered by punctuation code points
LineBreakData == << << S("Wall\n") >>, << S("Wall") >>, << S("Beam\r\n") >>, << S("\n") >> >>
PunctuationData == << << S("Wall, north") >>, << S("Wall north") >>, << S("A(B") >>, << S("A)B") >> >>

Datas == SheetsOf(CellTexts) \cup {ExampleData, LineBreakData, PunctuationData}

\* row_indices: the ascending, duplicate-free lists parse_row_selection yields (one past the
\* data included), and unordered lists and a list with a repeat, which the functions accept
Indices == {SortedSetSeq(X) : X \in SUBSET (0..MaxRows)}
           \cup {<< 0, 1, 2, 3 >>, << 2, 1, 0, 3 >>, << 1, 0 >>, << 2, 0, 1 >>, << 1, 0, 1 >>}

Cols == {<< >>} \cup {<< c >> : c \in 0..MaxRowLen}

Selections == {<< >>} \cup {<< L >> : L \in {<< >>, << S("A") >>, << S("B"), S("AB") >>}}

InitRows(sels) ==
  /\ ParseIdle
  /\ FindIdle
  /\ data \in Datas
  /\ idx \in Indices
  /\ col \in Cols
  /\ selcons \in sels
  /\ res = << >>
  /\ DocIdle
  /\ ExtIdle
  /\ pc = "init"

\* create_word_document: group the selected rows by construction
GroupRows ==
  /\ pc = "init"
  /\ res' = group_rows_by_construction(data, idx, col)
  /\ pc' = "done"
  /\ UNCHANGED << parsevars, findvars, data, idx, col, selcons, docvars, extvars >>

SpecGroup == InitRows({<< >>}) /\ [][GroupRows]_vars

\* filter_rows_by_constructions applied to a selection of rows
FilterRows ==
  /\ pc = "init"
  /\ res' = filter_rows_by_constructions(data, idx, col, selcons)
  /\ pc' = "done"
  /\ UNCHANGED << parsevars, findvars, data, idx, col, selcons, docvars, extvars >>

SpecFilter == InitRows(Selections) /\ [][FilterRows]_vars

\* select_constructions: list the constructions present in the data
ListConstructions ==
  /\ pc = "init"
  /\ res' = get_available_constructions(data, col)
  /\ pc' = "done"
  /\ UNCHANGED << parsevars, findvars, data, idx, col, selcons, docvars, extvars >>

SpecAvail == InitRows({<< >>}) /\ [][ListConstructions]_vars

\* ---------------------------------------------------------------------------
\* create_word_document, one step per table-filling statement group
\* ---------------------------------------------------------------------------

DocCellTexts == {S(""), S("A"), S("B")}

\* two construction groups of 2 and 3 rows
DocExample == << << S("A") >>, << S("A") >>, << S("B") >>, << S("B") >>, << S("B") >> >>

DocDatas == SheetsOf(DocCellTexts) \cup {DocExample}

\* column_mapping as read_excel_file builds it: Word column 2 is always None
Mappings == {NoMapping, [k \in 1..5 |-> IF k = 1 THEN << 0 >> ELSE IF k = 3 THEN << 1 >> ELSE << >>],
             [k \in 1..5 |-> IF k \in {3, 4} THEN << 0 >> ELSE IF k = 5 THEN << 1 >> ELSE << >>]}

\* output filename prefix of main: "Дефекты_выборка_"
OutputPrefix == SU(<< 1044, 1077, 1092, 1077, 1082, 1090, 1099, 95, 1074, 1099, 1073, 1086, 1088, 1082, 1072, 95 >>)

\* output_filename = f"Дефекты_выборка_{row_label}.docx"
OutputFilename(label) == OutputPrefix \o label \o S(".docx")

\* output filenames as main builds them, and one without an extension
OutputNames == {OutputPrefix \o S("1.docx"), OutputPrefix \o S("2-5.docx"), S("report")}

\* datetime.now() values
Clock == {[year |-> 2026, month |-> 10, day |-> 15, hour |-> 20, minute |-> 5, second |-> 9],
          [year |-> 2027, month |-> 1, day |-> 2, hour |-> 13, minute |-> 45, second |-> 30]}

\* output/ as create_word_document finds it. exists: a file of that name is in output/;
\* locked: another program holds it open, so unlinking it raises PermissionError;
\* writable: output/ accepts changes (creating and unlinking files in it); files: the
\* files of that name and its stamped forms in output/; path, saved, result: filled in
\* by the save step
OutputStates(names_, clocks) ==
  {[name |-> n, now |-> t, exists |-> e, locked |-> l, writable |-> w,
    files |-> IF e THEN {n} ELSE {}, path |-> << >>, saved |-> {}, result |-> << >>] :
     n \in names_, t \in clocks, e \in BOOLEAN, l \in BOOLEAN, w \in BOOLEAN}

InitDocWith(datas, outs) ==
  /\ ParseIdle
  /\ FindIdle
  /\ data \in datas
  /\ idx \in {SortedSetSeq(X) : X \in SUBSET (0..(Len(data) - 1))}
  /\ col \in Cols
  /\ selcons = << >>
  /\ res = << >>
  /\ cmap \in Mappings
  /\ groups = << >>
  /\ tbl = << >>
  /\ cur = 0
  /\ counter = 0
  /\ gi = 0
  /\ mi = 0
  /\ widths = << >>
  /\ out \in outs
  /\ env = << >>
  /\ wiz = << >>
  /\ pc = "init"

InitDoc == InitDocWith(DocDatas, OutputStates({OutputPrefix \o S("1.docx")}, {CHOOSE t \in Clock : t.year = 2026}))

\* group the rows and allocate the table (doc.add_table(rows=num_rows_table, ...))
AllocTable ==
  /\ pc = "init"
  /\ groups' = group_rows_by_construction(data, idx, col)
  /\ tbl' = [r \in 1..NumRowsTable(idx, groups') |-> EmptyRow]
  /\ cur' = 2
  /\ counter' = 1
  /\ gi' = 1
  /\ mi' = 0
  /\ widths' = [c \in 1..NumCols |-> StoredWidth(ColumnWidthEMU(COLUMN_WIDTHS, c - 1))]
  /\ pc' = "headers"
  /\ UNCHANGED << parsevars, findvars, rowvars, cmap, extvars >>

\* rows 0 and 1: the field labels and the column ordinals
WriteHeaderRows ==
  /\ pc = "headers"
  /\ tbl' = WriteRow(WriteRow(tbl, 0, TABLE_HEADERS, FALSE), 1, COLUMN_NUMBERS, FALSE)
  /\ pc' = "loop"
  /\ UNCHANGED << parsevars, findvars, rowvars, cmap, groups, cur, counter, gi, mi, widths, extvars >>

\* start of a group: the merged construction-name row when the name is present
GroupHeaderRow ==
  /\ pc = "loop"
  /\ gi <= Len(groups)
  /\ mi = 0
  /\ IF groups[gi].key # << >>
     THEN IF cur < Len(tbl)
          THEN /\ tbl' = WriteRow(tbl, cur, [c \in 1..NumCols |-> groups[gi].key[1]], TRUE)
               /\ cur' = cur + 1
               /\ mi' = 1
               /\ pc' = pc
          ELSE /\ pc' = "error"
               /\ UNCHANGED << tbl, cur, mi >>
     ELSE /\ mi' = 1
          /\ UNCHANGED << tbl, cur, pc >>
  /\ UNCHANGED << parsevars, findvars, rowvars, cmap, groups, counter, gi, widths, extvars >>

\* one data row of the current group
DataRow ==
  /\ pc = "loop"
  /\ gi <= Len(groups)
  /\ 1 <= mi /\ mi <= Len(groups[gi].idx)
  /\ LET ri == groups[gi].idx[mi] IN
     IF cur < Len(tbl) /\ ri < Len(data)
     THEN /\ tbl' = WriteRow(tbl, cur, DataCells(cmap, data[ri + 1], counter), FALSE)
          /\ counter' = counter + 1
          /\ cur' = cur + 1
          /\ mi' = mi + 1
          /\ pc' = pc
     ELSE /\ pc' = "error"
          /\ UNCHANGED << tbl, counter, cur, mi >>
  /\ UNCHANGED << parsevars, findvars, rowvars, cmap, groups, gi, widths, extvars >>

\* the group's rows are written: move to the next group
NextGroup ==
  /\ pc = "loop"
  /\ gi <= Len(groups)
  /\ mi = Len(groups[gi].idx) + 1
  /\ gi' = gi + 1
  /\ mi' = 0
  /\ UNCHANGED << parsevars, findvars, rowvars, cmap, groups, tbl, cur, counter, widths, pc, extvars >>

\* all groups written; the borders leave the rows alone
FinishTable ==
  /\ pc = "loop"
  /\ gi > Len(groups)
  /\ pc' = "save"
  /\ UNCHANGED << parsevars, findvars, rowvars, docvars, extvars >>

\* output_path.unlink() raises PermissionError: the file is held open elsewhere, or
\* output/ does not allow removing entries
UnlinkFails(o) == o.locked \/ ~o.writable

\* output_path = OUTPUT_DIR / output_filename and the exists / unlink / rename block
PrepareOutputPath ==
  /\ pc = "save"
  /\ out' = IF out.name \notin out.files
            THEN [out EXCEPT !.path = out.name]
            ELSE IF UnlinkFails(out)
            THEN [out EXCEPT !.path = StampedName(out.name, Strftime(out.now))]
            ELSE [out EXCEPT !.path = out.name, !.files = @ \ {out.name}]
  /\ pc' = "save2"
  /\ UNCHANGED << parsevars, findvars, rowvars, docvars, env, wiz >>

\* doc.save(str(output_path)) creates the file in output/: it returns the path, or None
\* on PermissionError when output/ takes no new files
SaveDocument ==
  /\ pc = "save2"
  /\ out' = IF ~out.writable THEN [out EXCEPT !.result = << >>]
            ELSE [out EXCEPT !.saved = {out.path}, !.files = @ \cup {out.path},
                             !.result = << out.path >>]
  /\ pc' = "done"
  /\ UNCHANGED << parsevars, findvars, rowvars, docvars, env, wiz >>

NextDoc == AllocTable \/ WriteHeaderRows \/ GroupHeaderRow \/ DataRow \/ NextGroup \/ FinishTable
           \/ PrepareOutputPath \/ SaveDocument

SpecDoc == InitDoc /\ [][NextDoc]_vars

\* create_word_document on a one-row sheet, against every state of output/
SpecSave == InitDocWith({<< << S("A") >> >>}, OutputStates(OutputNames, Clock)) /\ [][NextDoc]_vars

\* ---------------------------------------------------------------------------
\* main: the interactive wizard, from the file prompt to create_word_document
\* ---------------------------------------------------------------------------

\* retries the user may spend at re-prompting answers, over the whole run
MaxRetries == 1

\* an answer at a prompt: typed text, or Ctrl+C (KeyboardInterrupt raised by input())
Typed(t) == [intr |-> FALSE, text |-> S(t)]
CtrlC == [intr |-> TRUE, text |-> << >>]

FileAnswers == {Typed("1"), Typed("x"), CtrlC}
SheetAnswers == {Typed(""), Typed("2"), Typed("x"), CtrlC}
ConsAnswers == {Typed("all"), Typed("1"), Typed("9"), Typed(""), CtrlC}
RowAnswers == {Typed("all"), Typed("1"), Typed("2-3"), Typed("x"), Typed(""), CtrlC}

\* header labels the candidate lists recognise: "Наименование дефекта", "Конструкция",
\* "Фото", "Параметр", "Примечание", "Дефект"
HdrDefectName == SU(<< 1053, 1072, 1080, 1084, 1077, 1085, 1086, 1074, 1072, 1085, 1080, 1077, 32, 1076, 1077, 1092, 1077, 1082, 1090, 1072 >>)
HdrConstruction == SU(<< 1050, 1086, 1085, 1089, 1090, 1088, 1091, 1082, 1094, 1080, 1103 >>)
HdrPhoto == SU(<< 1060, 1086, 1090, 1086 >>)
HdrParameter == SU(<< 1055, 1072, 1088, 1072, 1084, 1077, 1090, 1088 >>)
HdrNote == SU(<< 1055, 1088, 1080, 1084, 1077, 1095, 1072, 1085, 1080, 1077 >>)
HdrDefect == SU(<< 1044, 1077, 1092, 1077, 1082, 1090 >>)

\* sheets: a header row and the data rows below it
E2ERows == << << S("d1"), S("Wall"), S("1"), S("p1"), S("n1") >>,
              << S("d2"), S("Wall"), S("2"), S("p2"), S("n2") >>,
              << S("d3"), S("Beam"), S("3"), S("p3"), S("n3") >> >>
\* the end-to-end example with the English headers as the spec writes them
E2ESheet == [header |-> << S("Defect Name"), S("Structure"), S("Photo"), S("Parameter"), S("Note") >>,
             rows |-> E2ERows]
\* the same example under the labels the program looks for
E2ESheetRu == [header |-> << HdrDefectName, HdrConstruction, HdrPhoto, HdrParameter, HdrNote >>,
               rows |-> E2ERows]
PlainSheet == [header |-> << HdrDefect, HdrPhoto >>,
               rows |-> << << S("a"), S("1") >>, << S("b"), S("2") >> >>]
HeaderOnlySheet == [header |-> E2ESheetRu.header, rows |-> << >>]
BlankGroupSheet == [header |-> << HdrConstruction, HdrNote >>,
                    rows |-> << << S(""), S("n") >>, << S(" "), S("m") >> >>]
MixedSheet == [header |-> << HdrConstruction, HdrDefect >>,
               rows |-> << << S("Beam"), S("a") >>, << S("Wall"), S("b") >>,
                           << S("Beam"), S("c") >>, << S(""), S("d") >> >>]

Workbooks == {<< E2ESheet >>, << E2ESheetRu >>, << PlainSheet >>, << HeaderOnlySheet >>,
              << BlankGroupSheet >>, << MixedSheet >>, << MixedSheet, E2ESheetRu >>}

\* if selected_indices: (select_rows, select_constructions)
SelectionAcceptedAlways(r) == TRUE

SelectionAccepted(r) == r # << >>

\* dict.get on column_mapping: a missing key reads as None
MappingOf(m) == [k \in 1..5 |-> IF k \in DOMAIN m THEN m[k] ELSE << >>]

WizStart ==
  [read |-> ReadFailure, cons |-> << >>, selected |-> << >>, filtered |-> << >>,
   rowsSel |-> << >>, remapped |-> << >>, label |-> << >>, built |-> FALSE, exit |-> << >>,
   retries |-> 0, interrupted |-> "", ended |-> "", zeroAt |-> "", zeros |-> 0,
   consAnswer |-> << >>, rowsAnswer |-> << >>]

\* files: how many spreadsheets get_excel_files finds; readOk: load_workbook succeeds
InitMain ==
  /\ ParseIdle
  /\ FindIdle
  /\ RowsIdle
  /\ DocIdle
  /\ out \in OutputStates({<< >>}, {CHOOSE t \in Clock : t.year = 2026})
  /\ env \in [files : {0, 1}, readOk : BOOLEAN, book : Workbooks]
  /\ wiz = WizStart
  /\ pc = "m_start"

\* main returns: the process exits with status 0
EndRun(why) == /\ pc' = "exit"
               /\ wiz' = [wiz EXCEPT !.ended = why, !.exit = << 0 >>]

\* select_excel_file with no files found
MainStart ==
  /\ pc = "m_start"
  /\ IF env.files = 0 THEN EndRun("nofiles")
     ELSE /\ pc' = "m_file"
          /\ UNCHANGED wiz
  /\ UNCHANGED << parsevars, findvars, rowvars, docvars, out, env >>

\* one answer at the file prompt of select_excel_file
FilePrompt ==
  /\ pc = "m_file"
  /\ \E a \in FileAnswers :
       IF a.intr
       THEN /\ pc' = "exit"
            /\ wiz' = [wiz EXCEPT !.interrupted = "file", !.ended = "nofile", !.exit = << 0 >>]
       ELSE LET r == PyInt(Strip(a.text)) IN
            IF r.ok /\ 0 <= r.val - 1 /\ r.val - 1 < env.files
            THEN /\ pc' = "m_read"
                 /\ UNCHANGED wiz
            ELSE /\ wiz.retries < MaxRetries
                 /\ wiz' = [wiz EXCEPT !.retries = @ + 1]
                 /\ UNCHANGED pc
  /\ UNCHANGED << parsevars, findvars, rowvars, docvars, out, env >>

\* after read_excel_file: `if not data: return`
Loaded(rd) ==
  IF rd.data = << >>
  THEN /\ pc' = "exit"
       /\ wiz' = [wiz EXCEPT !.read = rd, !.ended = "nodata", !.exit = << 0 >>]
  ELSE /\ pc' = "m_cons"
       /\ wiz' = [wiz EXCEPT !.read = rd]

\* read_excel_file up to the sheet prompt (a single sheet is read directly)
ReadBook ==
  /\ pc = "m_read"
  /\ IF ~env.readOk THEN Loaded(ReadFailure)
     ELSE IF Len(env.book) > 1
          THEN /\ pc' = "m_sheet"
               /\ UNCHANGED wiz
          ELSE Loaded(ReadSheet(env.book[1], 1))
  /\ UNCHANGED << parsevars, findvars, rowvars, docvars, out, env >>

\* the sheet prompt of read_excel_file; Ctrl+C propagates out of main (sys.exit(0))
SheetPrompt ==
  /\ pc = "m_sheet"
  /\ \E a \in SheetAnswers :
       IF a.intr
       THEN /\ pc' = "exit"
            /\ wiz' = [wiz EXCEPT !.interrupted = "sheet", !.ended = "interrupt", !.exit = << 0 >>]
       ELSE LET c == Strip(a.text)
                r == PyInt(c)
                k == IF c # << >> /\ r.ok /\ 0 <= r.val - 1 /\ r.val - 1 < Len(env.book) THEN r.val ELSE 1
            IN Loaded(ReadSheet(env.book[k], k))
  /\ UNCHANGED << parsevars, findvars, rowvars, docvars, out, env >>

\* select_constructions before its prompt: None without a column or constructions
ConsStart ==
  /\ pc = "m_cons"
  /\ LET cons == get_available_constructions(wiz.read.data, wiz.read.ccol) IN
     IF wiz.read.ccol = << >> \/ cons = << >>
     THEN /\ pc' = "m_filter"
          /\ UNCHANGED wiz
     ELSE /\ pc' = "m_cons_prompt"
          /\ wiz' = [wiz EXCEPT !.cons = cons]
  /\ UNCHANGED << parsevars, findvars, rowvars, docvars, out, env >>

\* one answer at the construction prompt; Ctrl+C returns None
ConsPrompt ==
  /\ pc = "m_cons_prompt"
  /\ \E a \in ConsAnswers :
       IF a.intr
       THEN /\ pc' = "m_filter"
            /\ wiz' = [wiz EXCEPT !.interrupted = "group", !.selected = << >>]
       ELSE LET sel == Strip(a.text) IN
            IF sel = << >>
            THEN /\ wiz.retries < MaxRetries
                 /\ wiz' = [wiz EXCEPT !.retries = @ + 1]
                 /\ UNCHANGED pc
            ELSE IF Lower(sel) = AllWord
            THEN /\ pc' = "m_filter"
                 /\ wiz' = [wiz EXCEPT !.selected = << wiz.cons >>, !.consAnswer = sel]
            ELSE LET pick == ConstructionPick(sel, wiz.cons) IN
                 IF SelectionAccepted(pick)
                 THEN /\ pc' = "m_filter"
                      /\ wiz' = [wiz EXCEPT !.selected = << pick >>, !.consAnswer = sel,
                                            !.zeroAt = IF pick = << >> THEN "group" ELSE @,
                                            !.zeros = IF pick = << >> THEN @ + 1 ELSE @]
                 ELSE /\ wiz.retries < MaxRetries
                      /\ wiz' = [wiz EXCEPT !.retries = @ + 1, !.zeroAt = "group", !.zeros = @ + 1]
                      /\ UNCHANGED pc
  /\ UNCHANGED << parsevars, findvars, rowvars, docvars, out, env >>

\* main's inline pre-filter and its `if not filtered_data: return`
FilterData ==
  /\ pc = "m_filter"
  /\ IF wiz.selected # << >> /\ wiz.read.ccol # << >>
     THEN LET f == InlineFilter(wiz.read.data, wiz.read.ccol[1], wiz.selected[1]) IN
          IF f = << >>
          THEN /\ pc' = "exit"
               /\ wiz' = [wiz EXCEPT !.filtered = f, !.ended = "filtered", !.exit = << 0 >>]
          ELSE /\ pc' = "m_rows"
               /\ wiz' = [wiz EXCEPT !.filtered = f]
     ELSE /\ pc' = "m_rows"
          /\ wiz' = [wiz EXCEPT !.filtered = wiz.read.data]
  /\ UNCHANGED << parsevars, findvars, rowvars, docvars, out, env >>

\* select_rows and main's `if not selected_row_indices: return`
RowsPrompt ==
  /\ pc = "m_rows"
  /\ IF wiz.filtered = << >>
     THEN EndRun("norows")
     ELSE \E a \in RowAnswers :
       IF a.intr
       THEN /\ pc' = "exit"
            /\ wiz' = [wiz EXCEPT !.interrupted = "rows", !.rowsSel = << >>, !.ended = "norows",
                                  !.exit = << 0 >>]
       ELSE LET sel == Strip(a.text) IN
            IF sel = << >>
            THEN /\ wiz.retries < MaxRetries
                 /\ wiz' = [wiz EXCEPT !.retries = @ + 1]
                 /\ UNCHANGED pc
            ELSE LET r == parse_row_selection(sel, Len(wiz.filtered)) IN
                 IF SelectionAccepted(r)
                 THEN IF r = << >>
                      THEN /\ pc' = "exit"
                           /\ wiz' = [wiz EXCEPT !.rowsSel = r, !.rowsAnswer = sel, !.zeroAt = "rows",
                                                 !.zeros = @ + 1,
                                                 !.ended = "norows", !.exit = << 0 >>]
                      ELSE /\ pc' = "m_remap"
                           /\ wiz' = [wiz EXCEPT !.rowsSel = r, !.rowsAnswer = sel]
                 ELSE /\ wiz.retries < MaxRetries
                      /\ wiz' = [wiz EXCEPT !.retries = @ + 1, !.zeroAt = "rows", !.zeros = @ + 1]
                      /\ UNCHANGED pc
  /\ UNCHANGED << parsevars, findvars, rowvars, docvars, out, env >>

\* the index remapping, the row label, and the call of create_word_document
Remap ==
  /\ pc = "m_remap"
  /\ LET filtering == wiz.selected # << >> /\ wiz.read.ccol # << >>
         rm == IF filtering
               THEN RemapLoop(wiz.read.data, wiz.read.ccol[1], wiz.selected[1], wiz.rowsSel, 0, 0)
               ELSE wiz.rowsSel
     IN IF rm = << >>
        THEN \* selected_row_indices[0] raises IndexError: __main__ exits with status 1
             /\ wiz' = [wiz EXCEPT !.remapped = rm, !.ended = "crash", !.exit = << 1 >>]
             /\ pc' = "exit"
             /\ UNCHANGED << data, idx, col, cmap, out >>
        ELSE /\ wiz' = [wiz EXCEPT !.remapped = rm, !.label = RowLabel(rm), !.built = TRUE]
             /\ data' = wiz.read.data
             /\ idx' = rm
             /\ col' = wiz.read.ccol
             /\ cmap' = MappingOf(wiz.read.mapping)
             /\ out' = [out EXCEPT !.name = OutputFilename(RowLabel(rm)),
                                    !.files = IF out.exists THEN {OutputFilename(RowLabel(rm))} ELSE {}]
             /\ pc' = "init"
  /\ UNCHANGED << parsevars, findvars, selcons, res, groups, tbl, cur, counter, gi, mi, widths, env >>

NextMain == MainStart \/ FilePrompt \/ ReadBook \/ SheetPrompt \/ ConsStart \/ ConsPrompt
            \/ FilterData \/ RowsPrompt \/ Remap \/ NextDoc

SpecMain == InitMain /\ [][NextMain]_vars

\* ---------------------------------------------------------------------------
\* Claims about parse_row_selection
\* ---------------------------------------------------------------------------

Max(a, b) == IF a >= b THEN a ELSE b
Min(a, b) == IF a <= b THEN a ELSE b

StrictlyAscending(s) == \A i \in 1..(Len(s) - 1) : s[i] < s[i + 1]

\* the contract's reading of one term: does it add index i?
RefTermAdds(t, total, i) ==
  LET u == Strip(t)
      p == FirstPos(u, "-")
  IN IF p = 0
     THEN PyInt(u).ok /\ 1 <= PyInt(u).val /\ PyInt(u).val <= total /\ i = PyInt(u).val - 1
     ELSE LET a == PyInt(SubSeq(u, 1, p - 1))
              b == PyInt(SubSeq(u, p + 1, Len(u)))
          IN a.ok /\ b.ok /\ Max(a.val - 1, 0) <= i /\ i < Min(b.val, total)

RefSelection(e, total) ==
  LET sel == Lower(Strip(e))
      parts == Split(sel, ",")
  IN IF sel = S("all") THEN 0..(total - 1)
     ELSE {i \in 0..(total - 1) : \E k \in 1..Len(parts) : RefTermAdds(parts[k], total, i)}

\* C1: parse_row_selection returns, in ascending order without duplicates, exactly
\* the indices of the "all" / single-number / clamped-range reading of the selection.
C1_SelectionMatchesReference ==
  pc = "done" =>
    /\ StrictlyAscending(presult)
    /\ Range(presult) = RefSelection(pexpr, ptotal)
    /\ (pexpr = S("all") /\ ptotal = 10) => presult = [i \in 1..10 |-> i - 1]
    /\ (pexpr = S("1,3,7") /\ ptotal = 10) => presult = << 0, 2, 6 >>
    /\ (pexpr = S("2-5") /\ ptotal = 10) => presult = << 1, 2, 3, 4 >>
    /\ (pexpr = S("0-2") /\ ptotal = 10) => presult = << 0, 1 >>

C1_Witness ==
  /\ pc = "done"
  /\ pexpr = S("0-2")
  /\ ptotal = 10
  /\ presult = << 0, 1 >>

\* the parts joined back with commas (",".join)
RECURSIVE JoinComma(_)
JoinComma(ps) == IF Len(ps) = 0 THEN << >>
                 ELSE IF Len(ps) = 1 THEN ps[1]
                 ELSE ps[1] \o << "," >> \o JoinComma(Tail(ps))

\* the parts without the k-th
WithoutTerm(ps, k) == SubSeq(ps, 1, k - 1) \o SubSeq(ps, k + 1, Len(ps))

\* a term that is not an integer, or a range with a side that is not an integer
Malformed(t) ==
  LET u == Strip(t)
      p == FirstPos(u, "-")
  IN IF p = 0 THEN ~PyInt(u).ok
     ELSE ~PyInt(SubSeq(u, 1, p - 1)).ok \/ ~PyInt(SubSeq(u, p + 1, Len(u))).ok

\* the indices a term selects by itself
TermIndices(t, total) == {i \in 0..(total - 1) : RefTermAdds(t, total, i)}

\* C2: the parse never fails; every index lies in [0, total); every well-formed term adds
\* all of its indices, and a malformed or out-of-range term adds nothing: deleting it
\* from the expression leaves the result as it is.
C2_MalformedTermsDropped ==
  pc = "done" =>
    /\ Range(presult) \subseteq 0..(ptotal - 1)
    /\ LET sel == Lower(Strip(pexpr))
           ps == Split(sel, ",")
       IN sel # AllWord =>
            /\ \A k \in 1..Len(ps) : ~Malformed(ps[k]) => TermIndices(ps[k], ptotal) \subseteq Range(presult)
            /\ \A k \in 1..Len(ps) :
                 (/\ Malformed(ps[k]) \/ TermIndices(ps[k], ptotal) = {}
                  /\ Lower(Strip(JoinComma(WithoutTerm(ps, k)))) # AllWord)
                 => parse_row_selection(JoinComma(WithoutTerm(ps, k)), ptotal) = presult
    /\ (pexpr = S("x,2") /\ ptotal = 10) => presult = << 1 >>

C2_Witness ==
  /\ pc = "done"
  /\ ptotal < 10
  /\ LET ps == Split(Lower(Strip(pexpr)), ",") IN
     /\ \E k \in 1..Len(ps) : Malformed(ps[k]) /\ Len(Strip(ps[k])) > 0
     /\ \E j \in 1..Len(ps) : ~Malformed(ps[j]) /\ TermIndices(ps[j], ptotal) # {}
  /\ presult # << >>

\* ---------------------------------------------------------------------------
\* Claims about find_column_index
\* ---------------------------------------------------------------------------

MinOf(X) == CHOOSE x \in X : \A y \in X : x <= y

HeaderIdx == 0..(Len(headers) - 1)

\* headers equal to candidate c after normalization
ExactHits(c) == {i \in HeaderIdx : Normalize(headers[i + 1]) = Normalize(c)}

\* headers related to candidate c by containment once all spaces are removed
SubHits(c) ==
  {i \in HeaderIdx :
     LET h == NoSpaces(Normalize(headers[i + 1]))
         n == NoSpaces(Normalize(c))
     IN Contains(h, n) \/ Contains(n, h)}

Overlaps(c) == ExactHits(c) \cup SubHits(c) # {}

RefFind ==
  IF \E k \in 1..Len(names) : Overlaps(names[k])
  THEN LET k == MinOf({j \in 1..Len(names) : Overlaps(names[j])})
       IN IF ExactHits(names[k]) # {} THEN << MinOf(ExactHits(names[k])) >>
          ELSE << MinOf(SubHits(names[k])) >>
  ELSE << >>

\* C3: find_column_index takes the first candidate (priority order) that matches any
\* header; for it, the lowest exact match wins, else the lowest substring match; None if none.
C3_FindColumnMatchesReference ==
  pc = "done" => fresult = RefFind

C3_Witness ==
  /\ pc = "done"
  /\ Len(names) = 2
  /\ ~Overlaps(names[1])
  /\ ExactHits(names[2]) = {}
  /\ fresult # << >>

\* C4 (as stated): a header that exactly matches a candidate is the one returned.
C4_ExactMatchReturned ==
  pc = "done" =>
    \A k \in 1..Len(names) : \A i \in HeaderIdx :
      Normalize(headers[i + 1]) = Normalize(names[k]) => fresult = << i >>

\* C4 (amended): if a candidate has an exact match and no earlier candidate matches any
\* header under either rule, the lowest exactly-matching header index is returned.
C4_ExactMatchOfFirstMatchingCandidate ==
  pc = "done" =>
    \A k \in 1..Len(names) :
      (ExactHits(names[k]) # {} /\ \A j \in 1..(k - 1) : ~Overlaps(names[j]))
        => fresult = << MinOf(ExactHits(names[k])) >>

C4_Witness ==
  /\ pc = "done"
  /\ Len(names) = 2
  /\ ~Overlaps(names[1])
  /\ Cardinality(ExactHits(names[2])) = 2
  /\ fresult # << >>

\* C5: when no candidate overlaps any header (exactly or by containment), the result is None.
C5_NoOverlapGivesNone ==
  pc = "done" =>
    ((\A k \in 1..Len(names) : ~Overlaps(names[k])) => fresult = << >>)

C5_Witness ==
  /\ pc = "done"
  /\ Len(headers) = 2
  /\ Len(names) = 2
  /\ \A k \in 1..Len(names) : ~Overlaps(names[k])
  /\ fresult = << >>

\* ---------------------------------------------------------------------------
\* Claims about grouping, filtering and construction enumeration
\* ---------------------------------------------------------------------------

\* the group text of row index i: trimmed cell of the group column, if there is one
RECURSIVE Flatten(_)
Flatten(gs) == IF Len(gs) = 0 THEN << >> ELSE Head(gs).idx \o Flatten(Tail(gs))

Count(s, v) == Cardinality({i \in 1..Len(s) : s[i] = v})

IsPermutationOf(s, t) == Len(s) = Len(t) /\ \A v \in Range(s) \cup Range(t) : Count(s, v) = Count(t, v)

DistinctKeys(gs) == \A g, h \in 1..Len(gs) : g # h => gs[g].key # gs[h].key

HasCell(i) == i < Len(data) /\ col[1] < Len(data[i + 1])
CellText(i) == Strip(data[i + 1][col[1] + 1])
RefKey(i) == IF HasCell(i) /\ CellText(i) # << >> THEN << CellText(i) >> ELSE << >>

\* C6: grouping yields one group per distinct key, each index list ascending, present keys
\* in ascending lexicographic order and the None group last; no column gives one None group.
C6_GroupingMatchesReference ==
  pc = "done" =>
    /\ col = << >> => res = << [key |-> << >>, idx |-> idx] >>
    /\ col # << >> =>
         LET K == {RefKey(i) : i \in Range(idx)} IN
         /\ Len(res) = Cardinality(K)
         /\ {res[g].key : g \in 1..Len(res)} = K
         /\ \A g \in 1..Len(res) :
              /\ IsPermutationOf(res[g].idx, SelectSeq(idx, LAMBDA i : RefKey(i) = res[g].key))
              /\ \A j \in 1..(Len(res[g].idx) - 1) : res[g].idx[j] <= res[g].idx[j + 1]
         /\ \A g \in 1..(Len(res) - 1) :
              /\ res[g].key # << >>
              /\ res[g + 1].key = << >> \/ StrLess(res[g].key[1], res[g + 1].key[1])
    /\ (data = ExampleData /\ idx = << 0, 1, 2, 3 >> /\ col = << 0 >>) =>
         res = << [key |-> << S("A") >>, idx |-> << 1 >>], [key |-> << S("B") >>, idx |-> << 0, 2 >>],
                 [key |-> << >>, idx |-> << 3 >>] >>

C6_Witness ==
  /\ pc = "done"
  /\ col # << >>
  /\ Len(res) = 3
  /\ res[3].key = << >>
  /\ \E g \in 1..3 : /\ Len(res[g].idx) = 2
                    /\ res[g].idx # SelectSeq(idx, LAMBDA i : RefKey(i) = res[g].key)

\* C7: with no column or no selection the indices come back unchanged; otherwise the
\* indices whose trimmed group text is selected, in their original order.
C7_FilterMatchesReference ==
  pc = "done" =>
    IF selcons = << >> \/ col = << >> THEN res = idx
    ELSE res = SelectSeq(idx, LAMBDA i : HasCell(i) /\ CellText(i) \in Range(selcons[1]))

C7_Witness ==
  /\ pc = "done"
  /\ selcons # << >>
  /\ col # << >>
  /\ res # << >>
  /\ Len(res) < Len(idx)
  /\ \E i \in Range(res) : data[i + 1][col[1] + 1] # CellText(i)

\* C8: the available constructions are the distinct non-empty trimmed texts of the
\* column, ascending; no column gives the empty list.
C8_AvailableConstructions ==
  pc = "done" =>
    IF col = << >> THEN res = << >>
    ELSE /\ \A k \in 1..(Len(res) - 1) : StrLess(res[k], res[k + 1])
         /\ Range(res) = {Strip(data[r][col[1] + 1]) : r \in {r2 \in 1..Len(data) : col[1] < Len(data[r2])}} \ {<< >>}

C8_Witness ==
  /\ pc = "done"
  /\ col # << >>
  /\ Len(res) = 2
  /\ \E r \in 1..Len(data) : col[1] < Len(data[r]) /\ Strip(data[r][col[1] + 1]) = << >>

\* ---------------------------------------------------------------------------
\* Claims about the Word table
\* ---------------------------------------------------------------------------

\* the rows the contract plans after the two header rows: per group, a header row
\* for a present key, then one data row per member index
RECURSIVE PlanFrom(_)
PlanFrom(g) ==
  IF g > Len(groups) THEN << >>
  ELSE (IF groups[g].key # << >> THEN << [kind |-> "group", key |-> groups[g].key[1]] >> ELSE << >>)
       \o [j \in 1..Len(groups[g].idx) |-> [kind |-> "data", ri |-> groups[g].idx[j]]]
       \o PlanFrom(g + 1)

PresentGroups == Cardinality({g \in 1..Len(groups) : groups[g].key # << >>})

RowMatchesPlan(row, step) ==
  IF step.kind = "group"
  THEN row.merged /\ row.cells[1] = step.key
  ELSE /\ ~row.merged
       /\ row.cells[2] = MappedCell(cmap, data[step.ri + 1], 1)
       /\ row.cells[3] = << >>
       /\ row.cells[4] = MappedCell(cmap, data[step.ri + 1], 3)

\* C9: the table has exactly 2 + n + (present-key groups) rows: labels, ordinals, then per
\* group its merged header row (present key only) and its data rows in ascending order;
\* every row is written exactly once and no write goes past the last row.
C9_TableRowPlan ==
  /\ pc # "error"
  /\ \A r \in 1..Len(tbl) : tbl[r].writes <= 1
  /\ pc = "done" =>
       /\ Len(tbl) = 2 + Len(idx) + PresentGroups
       /\ \A r \in 1..Len(tbl) : tbl[r].writes = 1
       /\ tbl[1].cells = TABLE_HEADERS
       /\ tbl[2].cells = COLUMN_NUMBERS
       /\ \A g \in 1..Len(groups) : StrictlyAscending(groups[g].idx)
       /\ Len(PlanFrom(1)) = Len(tbl) - 2
       /\ \A j \in 1..Len(PlanFrom(1)) : RowMatchesPlan(tbl[j + 2], PlanFrom(1)[j])

C9_Witness ==
  /\ pc = "done"
  /\ PresentGroups >= 1
  /\ \E g \in 1..Len(groups) : groups[g].key = << >>
  /\ Len(idx) >= 2
  /\ cmap # NoMapping

\* the non-merged rows after the two header rows, in table order
DataRowsOfTable == SelectSeq(SubSeq(tbl, 3, Len(tbl)), LAMBDA row : ~row.merged)

\* C10: the sequence-number cells of the data rows read 1, 2, ..., n in table order,
\* continuing across groups.
C10_SequenceNumbers ==
  pc = "done" =>
    /\ Len(DataRowsOfTable) = Len(idx)
    /\ \A j \in 1..Len(DataRowsOfTable) :
         PyInt(DataRowsOfTable[j].cells[1]).ok /\ PyInt(DataRowsOfTable[j].cells[1]).val = j

C10_Witness ==
  /\ pc = "done"
  /\ data = DocExample
  /\ col = << 0 >>
  /\ idx = << 0, 1, 2, 3, 4 >>
  /\ Len(groups) = 2
  /\ Len(groups[1].idx) = 2
  /\ Len(groups[2].idx) = 3

\* C11: data-row cells: column 2 empty; column k in {1,3,4,5} is the source cell at
\* column_mapping[k] when mapped and within the row, else empty (no first-column fallback).
C11_DataRowCells ==
  pc = "done" =>
    \A j \in 1..Len(PlanFrom(1)) :
      PlanFrom(1)[j].kind = "data" =>
        LET cells == tbl[j + 2].cells
            src == data[PlanFrom(1)[j].ri + 1]
        IN /\ cells[3] = << >>
           /\ \A k \in {1, 3, 4, 5} :
                cells[k + 1] = IF cmap[k] # << >> /\ cmap[k][1] < Len(src) THEN src[cmap[k][1] + 1] ELSE << >>
           /\ cmap[1] = << >> => cells[2] = << >>

C11_Witness ==
  /\ pc = "done"
  /\ cmap[1] = << >>
  /\ cmap[4] # << >>
  /\ \E j \in 1..Len(PlanFrom(1)) :
       /\ PlanFrom(1)[j].kind = "data"
       /\ data[PlanFrom(1)[j].ri + 1][1] # << >>

IsTimestamp(t) ==
  /\ Len(t) = 15
  /\ t[9] = "_"
  /\ \A i \in (1..8) \cup (10..15) : t[i] \in DOMAIN Digits

\* C13: a missing or deletable target is saved under its own name; one whose deletion
\* fails under the name with _YYYYMMDD_HHMMSS inserted before the extension (the old
\* file stays); a failing save returns no path and writes nothing; never both names.
C13_SaveFallback ==
  pc = "done" =>
    LET n == out.name
        \* t is n with _YYYYMMDD_HHMMSS inserted before its extension (appended if none)
        IsFallback(t) ==
          /\ Len(t) = Len(n) + 16
          /\ IF \E k \in 1..Len(n) : n[k] = "."
             THEN \E k \in 1..Len(n) :
                    /\ n[k] = "."
                    /\ \A j \in (k + 1)..Len(n) : n[j] # "."
                    /\ SubSeq(t, 1, k - 1) = SubSeq(n, 1, k - 1)
                    /\ t[k] = "_"
                    /\ IsTimestamp(SubSeq(t, k + 1, k + 15))
                    /\ SubSeq(t, k + 16, Len(t)) = SubSeq(n, k, Len(n))
             ELSE /\ SubSeq(t, 1, Len(n)) = n
                  /\ t[Len(n) + 1] = "_"
                  /\ IsTimestamp(SubSeq(t, Len(n) + 2, Len(t)))
        deletionFails == out.exists /\ UnlinkFails(out)
    IN /\ Cardinality(out.saved) <= 1
       /\ ~out.writable => out.saved = {} /\ out.result = << >>
       /\ out.writable /\ ~deletionFails => out.saved = {n} /\ out.result = << n >>
       /\ out.writable /\ deletionFails =>
            \E t \in out.saved : IsFallback(t) /\ out.result = << t >>
       /\ deletionFails => n \in out.files

C13_Witness ==
  /\ pc = "done"
  /\ out.exists
  /\ out.locked
  /\ out.writable
  /\ LastPos(out.name, ".") # 0
  /\ out.result # << >>

\* ---------------------------------------------------------------------------
\* Claims about group_rows_by_construction as a partition
\* ---------------------------------------------------------------------------

\* C19: on the index lists create_word_document passes (main builds a document only from a
\* non-empty selection), the groups' index lists concatenate to a permutation of the input
\* indices, every group list is non-empty, and no two groups share a key.
C19_GroupsPartitionIndices ==
  (pc = "done" /\ Len(idx) > 0) =>
    /\ IsPermutationOf(Flatten(res), idx)
    /\ \A g \in 1..Len(res) : Len(res[g].idx) > 0
    /\ DistinctKeys(res)

C19_Witness ==
  /\ pc = "done"
  /\ col # << >>
  /\ Len(res) >= 2
  /\ \E g \in 1..Len(res) : Len(res[g].idx) >= 2

\* ---------------------------------------------------------------------------
\* Claims about main
\* ---------------------------------------------------------------------------

\* the run is in the branch that filters by selected constructions
Filtering == wiz.selected # << >> /\ wiz.read.ccol # << >>

\* C14: no spreadsheet, a read error (read_excel_file returns [], None, {}, None), group
\* filtering that leaves no rows, or an empty final row selection end the run with status
\* 0 and create_word_document is never called; a document is only built when none of
\* them happened.
C14_StructuralFailuresBuildNothing ==
  /\ wiz.ended \in {"nofiles", "nodata", "filtered", "norows"} =>
       /\ pc = "exit"
       /\ wiz.exit = << 0 >>
       /\ ~wiz.built
       /\ tbl = << >>
  /\ (pc = "exit" /\ ~env.readOk) =>
       wiz.read = [data |-> << >>, sheet |-> << >>, mapping |-> << >>, ccol |-> << >>]
  /\ wiz.built =>
       /\ env.files > 0
       /\ env.readOk
       /\ wiz.read.data # << >>
       /\ wiz.filtered # << >>
       /\ wiz.remapped # << >>

C14_Witness ==
  /\ pc = "exit"
  /\ env.files = 1
  /\ ~env.readOk
  /\ wiz.ended = "nodata"

\* C15 (as stated): a row or group selection with zero valid tokens is reported and the
\* run ends: no further prompt and no document.
C15_ZeroSelectionEndsRun ==
  wiz.zeros > 0 => (pc = "exit" /\ ~wiz.built)

\* C15 (amended): an answer with zero valid tokens is reported and the same prompt is
\* issued again (the selection stays unset); a document is only built from a non-empty
\* group selection and a non-empty row selection.
C15_ZeroSelectionReprompted ==
  /\ [](wiz.built => (wiz.rowsSel # << >> /\ (wiz.selected # << >> => wiz.selected[1] # << >>)))
  /\ [][wiz'.zeros > wiz.zeros =>
          /\ pc \in {"m_cons_prompt", "m_rows"}
          /\ pc' = pc
          /\ wiz'.selected = wiz.selected
          /\ wiz'.rowsSel = wiz.rowsSel]_vars

C15_Witness ==
  /\ wiz.zeros > 0
  /\ wiz.built

\* C16 (as stated): Ctrl+C at any prompt (file, sheet, group, rows) ends the run at once
\* with status 0; no later step runs and no document is built.
C16_InterruptAbortsRun ==
  wiz.interrupted # "" => (pc = "exit" /\ wiz.exit = << 0 >> /\ ~wiz.built)

\* the sheet read by the run is the given sheet
RunOn(sheet) == \E k \in DOMAIN env.book : wiz.read.sheet = << k >> /\ env.book[k] = sheet

\* the end of a run that answered "all" at the row prompt, and at the group prompt when
\* one was shown
AllAllDone == /\ wiz.rowsAnswer = S("all")
              /\ wiz.cons # << >> => wiz.consAnswer = S("all")
              /\ wiz.interrupted = ""
              /\ pc = "done"

\* the example's table: two group rows, Beam before Wall, three data rows 1, 2, 3
ExampleTable ==
  LET body == SubSeq(tbl, 3, Len(tbl))
      heads == SelectSeq(body, LAMBDA row : row.merged)
      rows == SelectSeq(body, LAMBDA row : ~row.merged)
  IN /\ Len(tbl) = 7
     /\ Len(heads) = 2
     /\ body[1].merged /\ body[1].cells[1] = S("Beam")
     /\ body[3].merged /\ body[3].cells[1] = S("Wall")
     /\ Len(rows) = 3
     /\ [j \in 1..3 |-> rows[j].cells[1]] = << S("1"), S("2"), S("3") >>
     /\ [j \in 1..3 |-> rows[j].cells[2]] = << S("d3"), S("d1"), S("d2") >>

\* C17: the example sheet (Wall, Wall, Beam), its headers "Defect Name", "Structure", "Photo",
\* "Parameter", "Note" written as the program's labels, with "all" constructions and "all"
\* rows gives two group-header rows, Beam before Wall, and three data rows numbered 1, 2, 3.
C17_EndToEndExample ==
  (RunOn(E2ESheetRu) /\ AllAllDone) => ExampleTable

C17_Witness ==
  /\ RunOn(E2ESheetRu)
  /\ wiz.consAnswer = S("all")
  /\ AllAllDone

C20_RemapMatchesFilter ==
  (wiz.built /\ Filtering) =>
    LET rows == wiz.read.data
        c == wiz.read.ccol[1]
        F == filter_rows_by_constructions(rows, RangeSeq(0, Len(rows)), wiz.read.ccol, wiz.selected)
    IN /\ wiz.remapped = [k \in 1..Len(wiz.rowsSel) |-> F[wiz.rowsSel[k] + 1]]
       /\ StrictlyAscending(wiz.remapped)
       /\ Len(wiz.remapped) = Len(wiz.rowsSel)
       /\ \A i \in Range(wiz.remapped) : c < Len(rows[i + 1]) /\ Strip(rows[i + 1][c + 1]) \in Range(wiz.selected[1])

C20_Witness ==
  /\ wiz.built
  /\ Filtering
  /\ Len(wiz.rowsSel) = 1
  /\ wiz.remapped # wiz.rowsSel

\* ---------------------------------------------------------------------------
\* Claims about blank header cells in find_column_index
\* ---------------------------------------------------------------------------

\* header cells that are empty or whitespace-only
BlankHeaders == {i \in HeaderIdx : NoSpaces(Normalize(headers[i + 1])) = << >>}

\* non-blank header cells that match some candidate exactly or by containment
RealHits == {i \in HeaderIdx \ BlankHeaders : \E k \in 1..Len(names) : i \in ExactHits(names[k]) \cup SubHits(names[k])}

\* C22: a blank header matches every candidate by containment: with a blank header
\* present the result is never None, and when the first candidate has no exact match
\* and the first blank header comes before every real match, that blank column is returned.
C22_BlankHeaderCapturesField ==
  pc = "done" =>
    /\ (BlankHeaders # {} /\ Len(names) > 0) => fresult # << >>
    /\ (/\ BlankHeaders # {}
        /\ Len(names) > 0
        /\ ExactHits(names[1]) = {}
        /\ \A r \in RealHits : MinOf(BlankHeaders) < r)
       => fresult = << MinOf(BlankHeaders) >>

C22_Witness ==
  /\ pc = "done"
  /\ BlankHeaders # {}
  /\ Len(names) > 0
  /\ ExactHits(names[1]) = {}
  /\ RealHits # {}
  /\ \A r \in RealHits : MinOf(BlankHeaders) < r
  /\ fresult = << MinOf(BlankHeaders) >>

\* ---------------------------------------------------------------------------
\* Claims about the groups of the document main builds
\* ---------------------------------------------------------------------------

\* a group with a present key: it gets a merged header row
HasHeaderGroup == \E g \in 1..Len(groups) : groups[g].key # << >>

\* the absent-key group holds rows: they are written with no header row above them
HasUngroupedRows == \E g \in 1..Len(groups) : groups[g].key = << >> /\ Len(groups[g].idx) > 0

\* C21 (as stated): a document built by main never has both group-header rows and
\* ungrouped data rows, and when the user picked groups the absent-key group is empty.
C21_NoMixedGroups ==
  pc = "done" =>
    /\ ~(HasHeaderGroup /\ HasUngroupedRows)
    /\ wiz.selected # << >> => ~HasUngroupedRows

\* the same property on runs without Ctrl+C at the group prompt
C21_NoMixedGroupsWithoutInterrupt ==
  (pc = "done" /\ wiz.interrupted = "") =>
    /\ ~(HasHeaderGroup /\ HasUngroupedRows)
    /\ wiz.selected # << >> => ~HasUngroupedRows

====
